---------------------------- MODULE Spec2Model ----------------------------
(***************************************************************************)
(* A model of streamlit_app.py, the interactive general-ledger analyzer:   *)
(*   - validate_and_map_attributes : canonical attribute -> column         *)
(*   - analyze_gl                  : cleaning, net amount, classification, *)
(*                                   KPIs, category summary, trial balance *)
(*   - the header-row detection loop of the upload handler                 *)
(*   - classify_account                                                    *)
(* Text is modelled by TLA+ strings and handled character by character, so *)
(* lower(), strip(), replace() and the substring tests are computed, not    *)
(* assumed.  Amounts are integer-valued floats.                             *)
(***************************************************************************)
EXTENDS Integers, Sequences, FiniteSets, TLC

VARIABLES
    df,               \* the caller's table object (a pandas DataFrame)
    user_mapping,     \* the caller's override mapping object (None or a dict)
    calls,            \* the calls made so far: arguments and what each returned
    df_raw,           \* the header-less grid read from the uploaded file
    header_row_idx,   \* what the detection loop left in header_row_idx
    account_name,     \* the argument of classify_account
    account_category, \* what classify_account returned
    pc                \* where the handler under study stands

vars ==
    <<df, user_mapping, calls, df_raw, header_row_idx, account_name,
      account_category, pc>>

-----------------------------------------------------------------------------
(* Bounds of the model *)

MaxRows == 2
MaxCalls == 2
MaxGridRows == 3
MaxFragments == 3

-----------------------------------------------------------------------------
(* Python's string operations, character by character *)

CharAt(s, i) == SubSeq(s, i, i)

Rest(s) == SubSeq(s, 2, Len(s))

UpperCase == "ABCDEFGHIJKLMNOPQRSTUVWXYZ"

LowerCase == "abcdefghijklmnopqrstuvwxyz"

UpperChars == {CharAt(UpperCase, i) : i \in 1..Len(UpperCase)}

LowerOf ==
    [c \in UpperChars |->
        CharAt(LowerCase, CHOOSE i \in 1..Len(UpperCase) : CharAt(UpperCase, i) = c)]

LowerChar(c) == IF c \in UpperChars THEN LowerOf[c] ELSE c

RECURSIVE Lower(_)
Lower(s) == IF s = "" THEN "" ELSE LowerChar(CharAt(s, 1)) \o Lower(Rest(s))

IsSpace(c) == c \in {" ", "\t", "\n", "\r"}

RECURSIVE LStrip(_)
LStrip(s) == IF s # "" /\ IsSpace(CharAt(s, 1)) THEN LStrip(Rest(s)) ELSE s

RECURSIVE RStrip(_)
RStrip(s) ==
    IF s # "" /\ IsSpace(CharAt(s, Len(s))) THEN RStrip(SubSeq(s, 1, Len(s) - 1)) ELSE s

Strip(s) == RStrip(LStrip(s))

\* s.replace(old, new) for a one-character old
RECURSIVE Replace(_, _, _)
Replace(s, old, new) ==
    IF s = "" THEN ""
    ELSE (IF CharAt(s, 1) = old THEN new ELSE CharAt(s, 1)) \o Replace(Rest(s), old, new)

\* k in s
Contains(s, k) ==
    \E i \in 1..(Len(s) - Len(k) + 1) : SubSeq(s, i, i + Len(k) - 1) = k

Digits == "0123456789"

DigitChars == {CharAt(Digits, i) : i \in 1..Len(Digits)}

DigitOf == [c \in DigitChars |-> (CHOOSE i \in 1..Len(Digits) : CharAt(Digits, i) = c) - 1]

IsDigit(c) == c \in DigitChars

DigitValue(c) == DigitOf[c]

RECURSIVE IntToStr(_)
IntToStr(n) ==
    IF n < 0 THEN "-" \o IntToStr(-n)
    ELSE IF n < 10 THEN CharAt(Digits, n + 1)
    ELSE IntToStr(n \div 10) \o CharAt(Digits, (n % 10) + 1)

AllDigits(s) == s # "" /\ \A i \in 1..Len(s) : IsDigit(CharAt(s, i))

RECURSIVE DigitsToInt(_)
DigitsToInt(s) ==
    IF s = "" THEN 0
    ELSE 10 * DigitsToInt(SubSeq(s, 1, Len(s) - 1)) + DigitValue(CharAt(s, Len(s)))

-----------------------------------------------------------------------------
(* Cell values: an int, a float (integer-valued), a string or NaN; "err"    *)
(* marks a value float() refuses.                                           *)

IntCell(n) == [kind |-> "int", num |-> n, str |-> ""]

FloatCell(n) == [kind |-> "float", num |-> n, str |-> ""]

StrCell(s) == [kind |-> "str", num |-> 0, str |-> s]

NaN == [kind |-> "nan", num |-> 0, str |-> ""]

ErrCell == [kind |-> "err", num |-> 0, str |-> ""]

\* pd.isna / pd.notna
IsNa(c) == c.kind = "nan"

\* str(x), Series.astype(str)
CellToStr(c) ==
    CASE c.kind = "int" -> IntToStr(c.num)
      [] c.kind = "float" -> IntToStr(c.num) \o ".0"
      [] c.kind = "str" -> c.str
      [] OTHER -> "nan"

\* float(s) on the grammar [sign] digits [. zeros] | nan; anything else raises
UnsignedToFloat(s) ==
    LET dots == {i \in 1..Len(s) : CharAt(s, i) = "."}
    IN  IF dots = {} THEN (IF AllDigits(s) THEN FloatCell(DigitsToInt(s)) ELSE ErrCell)
        ELSE LET d == CHOOSE i \in dots : \A j \in dots : i <= j
                 ip == SubSeq(s, 1, d - 1)
                 fp == SubSeq(s, d + 1, Len(s))
             IN  IF AllDigits(ip) /\ (fp = "" \/ (AllDigits(fp) /\ DigitsToInt(fp) = 0))
                 THEN FloatCell(DigitsToInt(ip))
                 ELSE ErrCell

ParseFloat(s) ==
    IF Lower(s) = "nan" THEN NaN
    ELSE IF s # "" /\ CharAt(s, 1) = "-"
         THEN LET r == UnsignedToFloat(Rest(s))
              IN  IF r.kind = "float" THEN FloatCell(-r.num) ELSE r
    ELSE IF s # "" /\ CharAt(s, 1) = "+" THEN UnsignedToFloat(Rest(s))
    ELSE UnsignedToFloat(s)

\* Series.fillna(0) on one cell
FillNa(c) == IF IsNa(c) THEN FloatCell(0) ELSE c

-----------------------------------------------------------------------------
(* Tables: a DataFrame is its column labels and its rows, aligned *)

Table(columns, data) == [columns |-> columns, data |-> data]

SeqToSet(s) == {s[i] : i \in DOMAIN s}

HasColumn(t, c) == \E i \in DOMAIN t.columns : t.columns[i] = c

ColumnIndex(t, c) ==
    CHOOSE i \in DOMAIN t.columns :
        t.columns[i] = c /\ \A j \in DOMAIN t.columns : t.columns[j] = c => i <= j

\* df[c] as the sequence of its cells
Column(t, c) == [r \in DOMAIN t.data |-> t.data[r][ColumnIndex(t, c)]]

\* df[c] = values: overwrite the column, or append it as the last column
SetColumn(t, c, values) ==
    IF HasColumn(t, c)
    THEN Table(t.columns,
               [r \in DOMAIN t.data |->
                   [t.data[r] EXCEPT ![ColumnIndex(t, c)] = values[r]]])
    ELSE Table(Append(t.columns, c),
               [r \in DOMAIN t.data |-> Append(t.data[r], values[r])])

\* next((c for c in candidates if c in df.columns), None); "" stands for None
RECURSIVE FirstPresent(_, _)
FirstPresent(candidates, columns) ==
    IF candidates = <<>> THEN ""
    ELSE IF Head(candidates) \in columns THEN Head(candidates)
    ELSE FirstPresent(Tail(candidates), columns)

-----------------------------------------------------------------------------
(* Configurations *)

REQUIRED_ATTRIBUTES ==
    <<
      [attr |-> "posted_dt", mandatory |-> FALSE, possible_names |-> <<
          "posted_dt", "posted_date", "posting_date", "gl_date",
          "entry_date", "transaction_date", "journal_date", "posting_dt",
          "value_date", "period_date"
       >>],
      [attr |-> "doc_dt", mandatory |-> FALSE, possible_names |-> <<
          "doc_dt", "document_date", "doc_date", "invoice_date", "bill_date",
          "reference_date", "voucher_date"
       >>],
      [attr |-> "doc", mandatory |-> FALSE, possible_names |-> <<
          "doc", "document_no", "document_number", "voucher_no",
          "journal_no", "reference_no", "ref_no", "entry_no",
          "transaction_id", "batch_no"
       >>],
      [attr |-> "memo_description", mandatory |-> FALSE, possible_names |-> <<
          "memo_description", "description", "memo", "narration", "remarks",
          "line_description", "comments", "details", "gl_description"
       >>],
      [attr |-> "department_name", mandatory |-> FALSE, possible_names |-> <<
          "department_name", "department", "cost_center", "costcentre",
          "division", "business_unit", "unit", "team", "function"
       >>],
      [attr |-> "supplier_name", mandatory |-> FALSE, possible_names |-> <<
          "supplier_name", "supplier", "vendor_name", "vendor", "partner",
          "payee", "creditor", "beneficiary"
       >>],
      [attr |-> "item_name", mandatory |-> FALSE, possible_names |-> <<
          "item_name", "item", "product", "product_name", "sku", "material",
          "material_name", "asset_name"
       >>],
      [attr |-> "customer_name", mandatory |-> FALSE, possible_names |-> <<
          "customer_name", "customer", "client", "buyer", "account_name",
          "receiver", "payer"
       >>],
      [attr |-> "jnl", mandatory |-> FALSE, possible_names |-> <<
          "jnl", "journal_type", "entry_type", "transaction_type",
          "record_type", "posting_type", "gl_type"
       >>],
      [attr |-> "curr", mandatory |-> FALSE, possible_names |-> <<
          "curr", "currency", "currency_code", "fx_currency",
          "transaction_currency"
       >>],
      [attr |-> "txn_amt", mandatory |-> FALSE, possible_names |-> <<
          "txn_amt", "transaction_amount", "amount", "value", "net_amount",
          "amount_lcy", "amount_gbp", "amount_usd", "amount_inr"
       >>],
      [attr |-> "debit_gbp", mandatory |-> FALSE, possible_names |-> <<
          "debit_gbp", "debit", "dr", "debit_amount", "debits",
          "debit_value", "debit_in_gbp", "debit_local", "debit_usd",
          "debit_($)"
       >>],
      [attr |-> "credit_gbp", mandatory |-> FALSE, possible_names |-> <<
          "credit_gbp", "credit", "cr", "credit_amount", "credits",
          "credit_value", "credit_in_gbp", "credit_local", "credit_usd",
          "credit_($)"
       >>],
      [attr |-> "balance_gbp", mandatory |-> FALSE, possible_names |-> <<
          "balance_gbp", "balance", "closing_balance", "running_balance",
          "net_balance", "ending_balance", "account_balance"
       >>]
    >>

AttrCount == Len(REQUIRED_ATTRIBUTES)

Attributes == {REQUIRED_ATTRIBUTES[i].attr : i \in 1..AttrCount}

Props(attr) ==
    REQUIRED_ATTRIBUTES[CHOOSE i \in 1..AttrCount : REQUIRED_ATTRIBUTES[i].attr = attr]

CUSTOM_MAPPING(c) ==
    CASE c = "memo/description" -> "memo_description"
      [] c = "debit_(gbp)" -> "debit_gbp"
      [] c = "credit_(gbp)" -> "credit_gbp"
      [] c = "balance_(gbp)" -> "balance_gbp"
      [] OTHER -> c

-----------------------------------------------------------------------------
(* Validation + Mapping *)

\* The override mapping: None, or a dict from attribute to column name
NoMapping == [none |-> TRUE, d |-> <<>>]

Dict(d) == [none |-> FALSE, d |-> d]

\* "user_mapping and attr in user_mapping": None and {} are both falsy
HasOverride(um, attr) == ~um.none /\ attr \in DOMAIN um.d

\* df.rename(columns=CUSTOM_MAPPING, inplace=True)
RenameColumns(t) ==
    Table([i \in DOMAIN t.columns |-> CUSTOM_MAPPING(t.columns[i])], t.data)

\* [c.lower().strip() for c in df.columns]
NormalizedColumns(t) == {Strip(Lower(t.columns[i])) : i \in DOMAIN t.columns}

\* alt.lower() for every alt of every attribute's possible_names
LoweredNames ==
    [attr \in Attributes |->
        [i \in DOMAIN Props(attr).possible_names |-> Lower(Props(attr).possible_names[i])]]

\* FindColumn with the first two branches swapped: the override before the
\* direct match
FindColumnOverrideFirst(attr, df_columns, um) ==
    IF HasOverride(um, attr) /\ Lower(um.d[attr]) \in df_columns
    THEN Lower(um.d[attr])
    ELSE IF attr \in df_columns THEN attr
    ELSE FirstPresent(LoweredNames[attr], df_columns)

\* One pass of the loop body: the column found for attr, "" when none is.
\* 1 direct match, 2 user-provided mapping, 3 first of possible_names
FindColumn(attr, df_columns, um) ==
    IF attr \in df_columns THEN attr
    ELSE IF HasOverride(um, attr) /\ Lower(um.d[attr]) \in df_columns
         THEN Lower(um.d[attr])
    ELSE FirstPresent(LoweredNames[attr], df_columns)

\* returns col_mapping, missing, present; df is renamed in place
validate_and_map_attributes(t, um) ==
    LET renamed == RenameColumns(t)
        df_columns == NormalizedColumns(renamed)
        found == [i \in 1..AttrCount |->
                     FindColumn(REQUIRED_ATTRIBUTES[i].attr, df_columns, um)]
        names == [i \in 1..AttrCount |-> REQUIRED_ATTRIBUTES[i].attr]
        presentSet == {names[i] : i \in {j \in 1..AttrCount : found[j] # ""}}
    IN  [df |-> renamed,
         col_mapping |-> [a \in presentSet |->
                             found[CHOOSE i \in 1..AttrCount : names[i] = a]],
         missing |-> SelectSeq(names, LAMBDA a : a \notin presentSet),
         present |-> SelectSeq(names, LAMBDA a : a \in presentSet)]

-----------------------------------------------------------------------------
(* GL Analyzer: the column candidates and the classifier *)

possible_account_cols ==
    <<"account_name", "account", "gl_account", "account_code",
      "description", "memo_description", "account_key", "details">>

possible_debit_cols ==
    <<"debit_gbp", "debit", "dr", "debit_amount", "debits",
      "debit_value", "debit_in_gbp", "debit_local", "debit_usd", "debit_($)">>

possible_credit_cols ==
    <<"credit_gbp", "credit", "cr", "credit_amount", "credits",
      "credit_value", "credit_in_gbp", "credit_local", "credit_usd", "credit_($)">>

possible_amount_cols ==
    <<"txn_amt", "transaction_amount", "amount", "value", "net_amount">>

account_mapping ==
    <<
      [category |-> "Revenue", keywords |-> <<
          "sales", "sales return"
       >>],
      [category |-> "COGS", keywords |-> <<
          "cost of sales"
       >>],
      [category |-> "OPEX", keywords |-> <<
          "staff costs", "bad debt expense", "commissions", "conferences",
          "advertisements", "travel", "entertainment", "office supplies",
          "professional services", "telephone", "utilities",
          "other expenses", "rent", "vehicles", "equipment",
          "furniture and fixtures"
       >>],
      [category |-> "Other Income", keywords |-> <<
          "interest income", "dividend income",
          "gain/loss on sales of asset", "exchange gain"
       >>],
      [category |-> "Other Expense", keywords |-> <<
          "interest expense", "amortization of intangible assets",
          "depreciation", "exchange loss", "taxation", "adjusting"
       >>]
    >>

Categories == {account_mapping[i].category : i \in DOMAIN account_mapping}

\* NormalizeName without the replace(" ", "")
NormalizeNameKeepingSpaces(c) == Lower(CellToStr(c))

\* str(account_name).lower().replace(" ", "")
NormalizeName(c) == Replace(Lower(CellToStr(c)), " ", "")

\* the first category, in the order of account_mapping, one of whose keywords
\* is a substring of name; "Unclassified" when there is none
RECURSIVE FirstCategory(_, _)
FirstCategory(name, i) ==
    IF i > Len(account_mapping) THEN "Unclassified"
    ELSE IF \E k \in DOMAIN account_mapping[i].keywords :
                Contains(name, account_mapping[i].keywords[k])
         THEN account_mapping[i].category
    ELSE FirstCategory(name, i + 1)

classify_account(c) ==
    IF IsNa(c) THEN "Unclassified" ELSE FirstCategory(NormalizeName(c), 1)

-----------------------------------------------------------------------------
(* GL Analyzer: cleaning and aggregation *)

\* CleanCell that also strips "." as a thousands separator
CleanCellDroppingDots(c) ==
    LET s == Replace(Replace(Replace(CellToStr(c), ",", ""), ".", ""), " ", "")
    IN  ParseFloat(IF s = "" THEN "0" ELSE s)

\* astype(str).str.replace(",", "").str.replace(" ", "").replace("", "0").astype(float)
CleanCell(c) ==
    LET s == Replace(Replace(CellToStr(c), ",", ""), " ", "")
    IN  ParseFloat(IF s = "" THEN "0" ELSE s)

CleanColumn(t, c) ==
    LET cells == Column(t, c) IN [r \in DOMAIN t.data |-> CleanCell(cells[r])]

\* astype(float) raises ValueError when one value does not parse
Raises(cells) == \E r \in DOMAIN cells : cells[r].kind = "err"

\* The cleaning loop over [debit_col, credit_col, amount_col]: the table after
\* it, and whether it raised (the columns before the raising one stay cleaned)
RECURSIVE CleanLoop(_, _)
CleanLoop(t, cols) ==
    IF cols = <<>> THEN [df |-> t, raised |-> FALSE]
    ELSE IF Head(cols) = "" \/ ~HasColumn(t, Head(cols)) THEN CleanLoop(t, Tail(cols))
    ELSE LET cells == CleanColumn(t, Head(cols))
         IN  IF Raises(cells) THEN [df |-> t, raised |-> TRUE]
             ELSE CleanLoop(SetColumn(t, Head(cols), cells), Tail(cols))

\* NetOfDebitCredit with the operands swapped
NetOfCreditDebit(debit, credit) == FloatCell(FillNa(credit).num - FillNa(debit).num)

\* df[debit_col].fillna(0) - df[credit_col].fillna(0), one row
NetOfDebitCredit(debit, credit) == FloatCell(FillNa(debit).num - FillNa(credit).num)

\* Series.sum(): NaN is skipped
RECURSIVE SumCells(_)
SumCells(cells) ==
    IF cells = <<>> THEN 0
    ELSE (IF IsNa(Head(cells)) THEN 0 ELSE Head(cells).num) + SumCells(Tail(cells))

\* df[df["account_category"] == category][c].sum()
CategorySum(t, category, c) ==
    LET categories == Column(t, "account_category")
        cells == Column(t, c)
    IN  SumCells([r \in DOMAIN t.data |->
                     IF categories[r] = StrCell(category) THEN cells[r] ELSE NaN])

KpiNames ==
    {"Revenue", "COGS", "OPEX", "Gross Profit", "EBITDA",
     "Other Income", "Other Expense", "Net Profit"}

Kpis(t) ==
    LET revenue == CategorySum(t, "Revenue", "net_amount")
        cogs == CategorySum(t, "COGS", "net_amount")
        opex == CategorySum(t, "OPEX", "net_amount")
        other_income == CategorySum(t, "Other Income", "net_amount")
        other_expense == CategorySum(t, "Other Expense", "net_amount")
        gross_profit == revenue - cogs
        ebitda == gross_profit - opex
        net_profit == ebitda + other_income - other_expense
    IN  [k \in KpiNames |->
            CASE k = "Revenue" -> revenue
              [] k = "COGS" -> cogs
              [] k = "OPEX" -> opex
              [] k = "Gross Profit" -> gross_profit
              [] k = "EBITDA" -> ebitda
              [] k = "Other Income" -> other_income
              [] k = "Other Expense" -> other_expense
              [] OTHER -> net_profit]

\* The group keys of groupby("account_category"), which sorts them
GroupOrder ==
    <<"COGS", "OPEX", "Other Expense", "Other Income", "Revenue", "Unclassified">>

GroupKeys(t) ==
    LET categories == Column(t, "account_category")
    IN  SelectSeq(GroupOrder,
                  LAMBDA g : \E r \in DOMAIN t.data : categories[r] = StrCell(g))

\* sort_values(by="net_amount", ascending=False): rows of equal net_amount
\* keep their order
RECURSIVE InsertDescending(_, _)
InsertDescending(sorted, row) ==
    IF sorted = <<>> THEN <<row>>
    ELSE IF Head(sorted).net_amount >= row.net_amount
         THEN <<Head(sorted)>> \o InsertDescending(Tail(sorted), row)
    ELSE <<row>> \o sorted

RECURSIVE SortDescending(_)
SortDescending(rows) ==
    IF rows = <<>> THEN <<>>
    ELSE InsertDescending(SortDescending(SubSeq(rows, 1, Len(rows) - 1)),
                          rows[Len(rows)])

\* df.groupby("account_category")["net_amount"].sum(), sorted
Summary(t) ==
    LET keys == GroupKeys(t)
    IN  SortDescending([i \in DOMAIN keys |->
                           [account_category |-> keys[i],
                            net_amount |-> CategorySum(t, keys[i], "net_amount")]])

\* The trial balance over debit and credit, or over the single amount column
TrialBalance(t, debit_col, credit_col, amount_col) ==
    LET keys == GroupKeys(t)
    IN  IF debit_col # "" /\ credit_col # ""
        THEN [i \in DOMAIN keys |->
                 [account_category |-> keys[i],
                  total_debit |-> CategorySum(t, keys[i], debit_col),
                  total_credit |-> CategorySum(t, keys[i], credit_col),
                  balance |-> CategorySum(t, keys[i], debit_col)
                              - CategorySum(t, keys[i], credit_col)]]
        ELSE [i \in DOMAIN keys |->
                 [account_category |-> keys[i],
                  total_amount |-> CategorySum(t, keys[i], amount_col),
                  balance |-> CategorySum(t, keys[i], amount_col)]]

-----------------------------------------------------------------------------
(* GL Analyzer: analyze_gl *)

Mandatory(attrs) == SelectSeq(attrs, LAMBDA a : Props(a).mandatory)

Optional(attrs) == SelectSeq(attrs, LAMBDA a : ~Props(a).mandatory)

\* The interactive mapping loop: sel[attr] is what st.selectbox returned for
\* attr ("" when nothing is chosen); a choice is stored in user_mapping, which
\* is created when it was None
AfterSelection(um, asked, sel) ==
    LET picked == {a \in SeqToSet(asked) : sel[a] # ""}
        old == IF um.none THEN {} ELSE DOMAIN um.d
    IN  IF picked = {} THEN um
        ELSE Dict([a \in old \cup picked |-> IF a \in picked THEN sel[a] ELSE um.d[a]])

\* What a call leaves and returns: df the table object after the call (the
\* first element of the returned tuple is this same object), user_mapping the
\* caller's mapping object after the call, status how the call ended
Outcome(status, t, um, v, mandatory_missing, kpis, summary, trial_balance) ==
    [status |-> status, df |-> t, user_mapping |-> um,
     col_mapping |-> v.col_mapping, missing |-> v.missing, present |-> v.present,
     mandatory_missing |-> mandatory_missing,
     kpis |-> kpis, summary |-> summary, trial_balance |-> trial_balance]

\* df[debit_col] = df[debit_col].fillna(0), when the column is there
FillColumn(t, c) ==
    IF c # "" /\ HasColumn(t, c)
    THEN LET cells == Column(t, c)
         IN  SetColumn(t, c, [r \in DOMAIN t.data |-> FillNa(cells[r])])
    ELSE t

\* lines 349-369: the fillna of the trial balance, then the return
Finish(um, v, t5, debit_col, credit_col, amount_col, t6) ==
    Outcome("ok", t6, um, v, <<>>, Kpis(t5), Summary(t5),
            TrialBalance(t6, debit_col, credit_col, amount_col))

FillColumns(t, debit_col, credit_col, amount_col) ==
    IF debit_col # "" /\ credit_col # ""
    THEN FillColumn(FillColumn(t, debit_col), credit_col)
    ELSE FillColumn(FillColumn(FillColumn(t, debit_col), credit_col), amount_col)

\* line 281: df["account_category"] = df[account_col].apply(classify_account)
Categorise(t, account_col) ==
    LET accounts == Column(t, account_col)
    IN  SetColumn(t, "account_category",
            [r \in DOMAIN t.data |-> StrCell(classify_account(accounts[r]))])

\* line 281 raises KeyError when no account column was found
ClassifyRows(um, v, account_col, debit_col, credit_col, amount_col, t4) ==
    IF account_col = ""
    THEN Outcome("KeyError", t4, um, v, <<>>, <<>>, <<>>, <<>>)
    ELSE LET t5 == Categorise(t4, account_col)
         IN  Finish(um, v, t5, debit_col, credit_col, amount_col,
                    FillColumns(t5, debit_col, credit_col, amount_col))

\* lines 240-243: df["net_amount"]
NetAmount(t, debit_col, credit_col, amount_col) ==
    IF debit_col # "" /\ credit_col # ""
    THEN LET debit == Column(t, debit_col)
             credit == Column(t, credit_col)
         IN  SetColumn(t, "net_amount",
                 [r \in DOMAIN t.data |-> NetOfDebitCredit(debit[r], credit[r])])
    ELSE LET amount == Column(t, amount_col)
         IN  SetColumn(t, "net_amount", [r \in DOMAIN t.data |-> FillNa(amount[r])])

\* lines 231-246: the outcome of the cleaning loop, then the net amount
Derive(um, v, account_col, debit_col, credit_col, amount_col, cleaned) ==
    IF cleaned.raised
    THEN Outcome("ValueError", cleaned.df, um, v, <<>>, <<>>, <<>>, <<>>)
    ELSE IF ~(debit_col # "" /\ credit_col # "") /\ amount_col = ""
    THEN Outcome("NoAmountColumn", cleaned.df, um, v, <<>>, <<>>, <<>>, <<>>)
    ELSE ClassifyRows(um, v, account_col, debit_col, credit_col, amount_col,
                   NetAmount(cleaned.df, debit_col, credit_col, amount_col))

\* lines 226-237: the columns found, cleaned in the order debit, credit, amount
Clean(um, v, account_col, debit_col, credit_col, amount_col) ==
    Derive(um, v, account_col, debit_col, credit_col, amount_col,
           CleanLoop(v.df, <<debit_col, credit_col, amount_col>>))

\* lines 193-228: the mandatory check, then the column detection
Detect(um, v, columns) ==
    IF Mandatory(v.missing) # <<>>
    THEN Outcome("MandatoryMissing", v.df, um, v, Mandatory(v.missing),
                 <<>>, <<>>, <<>>)
    ELSE Clean(um, v,
               FirstPresent(possible_account_cols, columns),
               FirstPresent(possible_debit_cols, columns),
               FirstPresent(possible_credit_cols, columns),
               FirstPresent(possible_amount_cols, columns))

\* line 190: the attributes are mapped again after the select boxes; umAfter
\* is the caller's mapping object, which stays None when it was None
Remap(um, v1, asked, um2) ==
    LET v == IF asked # <<>> THEN validate_and_map_attributes(v1.df, um2) ELSE v1
    IN  Detect(IF um.none THEN um ELSE um2, v, SeqToSet(v.df.columns))

\* lines 177-188: the select boxes, one per missing attribute
Interact(um, sel, v1, asked) ==
    Remap(um, v1, asked, IF asked # <<>> THEN AfterSelection(um, asked, sel) ELSE um)

\* lines 169-171
Validated(um, sel, v1) ==
    Interact(um, sel, v1, Mandatory(v1.missing) \o Optional(v1.missing))

analyze_gl(t, um, sel) == Validated(um, sel, validate_and_map_attributes(t, um))

-----------------------------------------------------------------------------
(* Streamlit App: header row detection *)

header_keywords ==
    <<
      "debit", "credit", "amount", "balance", "debit_amount",
      "credit_amount", "net_amount", "total", "transaction_amount", "value",
      "dr", "cr", "debit_gbp", "credit_gbp", "amount_gbp", "gl_date",
      "posted_date", "posting_date", "transaction_date", "doc_date",
      "journal_date", "date", "entry_date", "value_date", "fiscal_period",
      "period", "fiscal_year", "year", "month", "gl_account", "account",
      "account_number", "account_no", "account_name", "main_account",
      "ledger_account", "account_code", "coa_code", "coa_name",
      "chart_of_account", "doc_no", "document_no", "document_number",
      "voucher_no", "journal_id", "journal_no", "reference", "reference_no",
      "ref_no", "batch_no", "entry_id", "transaction_id", "description",
      "memo", "memo_description", "narration", "remarks", "comments",
      "details", "line_description", "transaction_description", "department",
      "department_name", "cost_center", "costcentre", "division",
      "business_unit", "unit", "entity", "company", "company_name",
      "location", "region", "branch", "vendor", "vendor_name", "supplier",
      "supplier_name", "customer", "customer_name", "employee",
      "employee_name", "partner", "client", "product", "product_name",
      "item", "item_name", "project", "project_name", "job", "job_name",
      "work_order", "work_order_no", "transaction_type",
      "transaction_category", "entry_type", "journal_type", "posting_type",
      "record_type", "gl_type", "account_type", "source", "source_system",
      "module", "currency", "currency_code", "fx_rate", "exchange_rate",
      "status", "flag", "approved_by", "created_by", "updated_by", "timestamp"
    >>

\* " ".join([str(x).lower() for x in row.tolist() if pd.notna(x)])
RECURSIVE JoinRow(_)
JoinRow(row) ==
    IF row = <<>> THEN ""
    ELSE IF IsNa(Head(row)) THEN JoinRow(Tail(row))
    ELSE LET rest == SelectSeq(Tail(row), LAMBDA x : ~IsNa(x))
         IN  Lower(CellToStr(Head(row)))
             \o (IF rest = <<>> THEN "" ELSE " " \o JoinRow(rest))

\* sum(1 for kw in header_keywords if kw in row_str)
match_count(row) ==
    LET row_str == JoinRow(row)
    IN  Cardinality({k \in DOMAIN header_keywords : Contains(row_str, header_keywords[k])})

\* Qualifies with > in place of >=
QualifiesAboveThree(row) == match_count(row) > 3

\* if match_count >= 3
Qualifies(row) == match_count(row) >= 3

\* The loop over df_raw.iterrows() with its break: the 0-based index of the
\* first qualifying row, -1 for None
DetectHeaderRow(grid) ==
    LET hit == {i \in DOMAIN grid : Qualifies(grid[i])}
    IN  IF hit = {} THEN -1 ELSE (CHOOSE i \in hit : \A j \in hit : i <= j) - 1

-----------------------------------------------------------------------------
(* The inputs the model draws from *)

\* Ledger lines: an account text with its debit, credit and amount values
AccountTexts == {"Sales Revenue", "Office Rent Expense", "TOTAL ASSETS"}

AmountValues ==
    { [debit |-> IntCell(0), credit |-> IntCell(1000), amount |-> IntCell(7)],
      [debit |-> IntCell(500), credit |-> IntCell(0), amount |-> StrCell("n/a")],
      [debit |-> NaN, credit |-> StrCell("1,000"), amount |-> StrCell(" 2,500 ")] }

LedgerLines ==
    { [account |-> StrCell(a), debit |-> v.debit, credit |-> v.credit, amount |-> v.amount] :
          a \in AccountTexts, v \in AmountValues }

\* Column layouts: each column has a label and the field of the line it shows
Col(label, field) == [label |-> label, field |-> field]

Layouts ==
    { <<Col("account", "account"), Col("debit", "debit"), Col("credit", "credit")>>,
      <<Col("account", "account"), Col("amount", "amount")>>,
      <<Col("account", "account"), Col("debit", "debit"), Col("amount", "amount")>>,
      <<Col("account", "account"), Col("dr_amt", "debit"), Col("cr_amt", "credit"),
        Col("amount", "amount")>>,
      <<Col("debit", "debit"), Col("credit", "credit")>>,
      <<Col("account", "account"), Col("debit_(gbp)", "debit"),
        Col("credit_(gbp)", "credit")>>,
      <<Col("account", "account"), Col("cr_amt", "credit")>>,
      <<Col("description", "account"), Col("net_amount", "debit")>> }

MakeTable(layout, lines) ==
    Table([i \in DOMAIN layout |-> layout[i].label],
          [r \in DOMAIN lines |-> [i \in DOMAIN layout |-> lines[r][layout[i].field]]])

Tables ==
    { MakeTable(layout, lines) :
          layout \in Layouts, lines \in UNION {[1..n -> LedgerLines] : n \in 1..MaxRows} }

UserMappings ==
    { NoMapping,
      Dict([a \in {} |-> ""]),
      Dict([a \in {"debit_gbp", "credit_gbp"} |->
               IF a = "debit_gbp" THEN "dr_amt" ELSE "cr_amt"]) }

\* What the select boxes return: nothing chosen, or one attribute mapped
NoSelection == [a \in Attributes |-> ""]

Pick(attr, column) == [a \in Attributes |-> IF a = attr THEN column ELSE ""]

Selections == {NoSelection, Pick("credit_gbp", "cr_amt"), Pick("doc", "amount")}

\* Column sets and overrides for the resolver alone
ColumnPool ==
    <<"debit", "debit_gbp", "Debit ", "credit_(gbp)", "amount", "dr",
      "account_name", "cr_amt">>

ResolverTables ==
    { LET columns == SelectSeq(ColumnPool, LAMBDA c : c \in S)
      IN  Table(columns, << [i \in DOMAIN columns |-> IntCell(0)] >>) :
          S \in SUBSET SeqToSet(ColumnPool) }

OverrideAttrs == {"debit_gbp", "doc"}

OverrideTargets == {"debit", "DR", "amount", "cr_amt", "no_such_column"}

ResolverMappings ==
    {NoMapping} \cup
    { Dict([a \in D |-> f[a]]) : D \in SUBSET OverrideAttrs, f \in [OverrideAttrs -> OverrideTargets] }

\* Raw grids for the header detection
GridRows ==
    { <<NaN, NaN, NaN>>,
      <<StrCell("ACME Ltd"), NaN, NaN>>,
      <<StrCell("Account Description Report"), NaN, NaN>>,
      <<StrCell("Dr"), StrCell("Cr"), StrCell("Memo")>>,
      <<StrCell("Account"), StrCell(" Debit"), StrCell("Credit")>>,
      <<StrCell("Sales Revenue"), IntCell(0), IntCell(1000)>> }

Grids == UNION {[1..n -> GridRows] : n \in 1..MaxGridRows}

\* Account texts for the classifier: up to MaxFragments fragments, concatenated
Fragments ==
    {"cost of sales", "Interest Income", "exchange gain", " ", "Sales", "rent",
     "Depreciation", "staff costs", "x"}

RECURSIVE Concat(_)
Concat(parts) == IF parts = <<>> THEN "" ELSE Head(parts) \o Concat(Tail(parts))

ClassifierInputs ==
    {NaN, IntCell(1000)} \cup
    { StrCell(Concat(parts)) :
          parts \in UNION {[1..n -> Fragments] : n \in 0..MaxFragments} }

-----------------------------------------------------------------------------
(* The state machines *)

Call(op, sel, out) ==
    [op |-> op, df |-> df, user_mapping |-> user_mapping, sel |-> sel, out |-> out]

\* validate_and_map_attributes(df, user_mapping), called by the caller
Resolve ==
    /\ Len(calls) < MaxCalls
    /\ LET v == validate_and_map_attributes(df, user_mapping)
       IN  /\ df' = v.df
           /\ calls' = Append(calls,
                  Call("validate_and_map_attributes", NoSelection,
                       Outcome("ok", v.df, user_mapping, v, <<>>, <<>>, <<>>, <<>>)))
    /\ UNCHANGED <<user_mapping, df_raw, header_row_idx, account_name, account_category, pc>>

\* analyze_gl(df, user_mapping), the select boxes returning sel
Analyze(sel) ==
    /\ Len(calls) < MaxCalls
    /\ \A a \in Attributes : sel[a] = "" \/ HasColumn(RenameColumns(df), sel[a])
    /\ LET out == analyze_gl(df, user_mapping, sel)
       IN  /\ df' = out.df
           /\ user_mapping' = out.user_mapping
           /\ calls' = Append(calls, Call("analyze_gl", sel, out))
    /\ UNCHANGED <<df_raw, header_row_idx, account_name, account_category, pc>>

\* The upload handler's detection loop
DetectHeader ==
    /\ pc = "uploaded"
    /\ header_row_idx' = DetectHeaderRow(df_raw)
    /\ pc' = "detected"
    /\ UNCHANGED <<df, user_mapping, calls, df_raw, account_name, account_category>>

\* classify_account(account_name)
Classify ==
    /\ pc = "called"
    /\ account_category' = classify_account(account_name)
    /\ pc' = "returned"
    /\ UNCHANGED <<df, user_mapping, calls, df_raw, header_row_idx, account_name>>

EmptyTable == Table(<<>>, <<>>)

Init ==
    /\ df \in Tables
    /\ user_mapping \in UserMappings
    /\ calls = <<>>
    /\ df_raw = <<>>
    /\ header_row_idx = -1
    /\ account_name = NaN
    /\ account_category = "Unclassified"
    /\ pc = "api"

Next == \E sel \in Selections : Analyze(sel)

Spec == Init /\ [][Next]_vars

InitResolver ==
    /\ df \in ResolverTables
    /\ user_mapping \in ResolverMappings
    /\ calls = <<>>
    /\ df_raw = <<>>
    /\ header_row_idx = -1
    /\ account_name = NaN
    /\ account_category = "Unclassified"
    /\ pc = "api"

NextResolver == Resolve

SpecResolver == InitResolver /\ [][NextResolver]_vars

InitHeader ==
    /\ df = EmptyTable
    /\ user_mapping = NoMapping
    /\ calls = <<>>
    /\ df_raw \in Grids
    /\ header_row_idx = -1
    /\ account_name = NaN
    /\ account_category = "Unclassified"
    /\ pc = "uploaded"

NextHeader == DetectHeader

SpecHeader == InitHeader /\ [][NextHeader]_vars

InitClassifier ==
    /\ df = EmptyTable
    /\ user_mapping = NoMapping
    /\ calls = <<>>
    /\ df_raw = <<>>
    /\ header_row_idx = -1
    /\ account_name \in ClassifierInputs
    /\ account_category = ""
    /\ pc = "called"

NextClassifier == Classify

SpecClassifier == InitClassifier /\ [][NextClassifier]_vars

-----------------------------------------------------------------------------
(* Properties of the resolver, checked under SpecResolver *)

\* The normalized column names the resolver of call c matched against
ColumnsSeen(c) == NormalizedColumns(RenameColumns(c.df))

\* attr's override names a column of the table
OverrideNamesColumn(c, attr) ==
    /\ HasOverride(c.user_mapping, attr)
    /\ \E i \in DOMAIN c.df.columns :
           Strip(Lower(CUSTOM_MAPPING(c.df.columns[i]))) = Lower(c.user_mapping.d[attr])

\* C1, as amended: an override that names an existing column decides the
\* attribute's column unless a column is named exactly like the attribute
\* (after the rename, lowercased and stripped); then the direct match is kept.
\* So {debit, debit_gbp} with {debit_gbp: debit} gives debit_gbp -> debit_gbp.
C1_OverrideAfterDirectMatch ==
    \A i \in DOMAIN calls : \A attr \in Attributes :
        OverrideNamesColumn(calls[i], attr) =>
            /\ attr \in DOMAIN calls[i].out.col_mapping
            /\ calls[i].out.col_mapping[attr] =
                   IF attr \in ColumnsSeen(calls[i]) THEN attr
                   ELSE Lower(calls[i].user_mapping.d[attr])

\* C1 witness: the claim's own example was resolved, and the direct match won
C1_Witness ==
    \E i \in DOMAIN calls :
        /\ {"debit", "debit_gbp"} \subseteq SeqToSet(calls[i].df.columns)
        /\ HasOverride(calls[i].user_mapping, "debit_gbp")
        /\ calls[i].user_mapping.d["debit_gbp"] = "debit"
        /\ calls[i].out.col_mapping["debit_gbp"] = "debit_gbp"

\* C1 as stated: an attribute that is automatically matchable to one column
\* and overridden to a different existing column maps to the override column
C1_OverrideAlwaysWins ==
    \A i \in DOMAIN calls : \A attr \in Attributes :
        LET auto == FirstPresent(<<attr>> \o LoweredNames[attr], ColumnsSeen(calls[i]))
        IN  (/\ OverrideNamesColumn(calls[i], attr)
             /\ auto # ""
             /\ auto # Lower(calls[i].user_mapping.d[attr]))
            => /\ attr \in DOMAIN calls[i].out.col_mapping
               /\ calls[i].out.col_mapping[attr] = Lower(calls[i].user_mapping.d[attr])

\* C3 as stated: the returned mapping is injective, no column is the value of
\* two attributes
C3_MappingInjective ==
    \A i \in DOMAIN calls :
        \A a, b \in DOMAIN calls[i].out.col_mapping :
            calls[i].out.col_mapping[a] = calls[i].out.col_mapping[b] => a = b

-----------------------------------------------------------------------------
(* Properties of analyze_gl, checked under Spec *)

Analyses == {i \in DOMAIN calls : calls[i].op = "analyze_gl"}

\* C2 as stated: without a column for credit_gbp and without an override, a
\* call that returns has stopped with a mandatory-attribute error naming
\* credit_gbp and returns an empty KPI mapping
C2_MissingCreditStops ==
    \A i \in Analyses :
        (/\ ~HasOverride(calls[i].user_mapping, "credit_gbp")
         /\ calls[i].sel = NoSelection
         /\ "credit_gbp" \in SeqToSet(calls[i].out.missing)
         /\ calls[i].out.status \notin {"ValueError", "KeyError"})
        => /\ calls[i].out.status = "MandatoryMissing"
           /\ "credit_gbp" \in SeqToSet(calls[i].out.mandatory_missing)
           /\ calls[i].out.kpis = <<>>

\* The number a cell of the returned table stands for, NaN counting as 0
NumberOf(c) == FillNa(CleanCell(c)).num

\* C5 as stated: in every row of the returned table net_amount is the resolved
\* debit column minus the resolved credit column when the resolution maps both
\* debit_gbp and credit_gbp, and the resolved amount column otherwise
C5_NetAmountFollowsResolution ==
    \A i \in Analyses :
        LET out == calls[i].out
            mapping == out.col_mapping
            net == Column(out.df, "net_amount")
        IN  out.status = "ok" =>
                \A r \in DOMAIN out.df.data :
                    IF {"debit_gbp", "credit_gbp"} \subseteq DOMAIN mapping
                    THEN /\ HasColumn(out.df, mapping["debit_gbp"])
                         /\ HasColumn(out.df, mapping["credit_gbp"])
                         /\ net[r].num =
                                NumberOf(Column(out.df, mapping["debit_gbp"])[r])
                                - NumberOf(Column(out.df, mapping["credit_gbp"])[r])
                    ELSE /\ "txn_amt" \in DOMAIN mapping
                         /\ HasColumn(out.df, mapping["txn_amt"])
                         /\ net[r].num = NumberOf(Column(out.df, mapping["txn_amt"])[r])

\* The table without the rows whose account, lowercased, contains "total"
WithoutTotalRows(t) ==
    LET account_col == FirstPresent(possible_account_cols,
                                    SeqToSet(RenameColumns(t).columns))
    IN  IF account_col = "" THEN t
        ELSE Table(t.columns,
                   SelectSeq(t.data,
                       LAMBDA row :
                           ~Contains(Lower(CellToStr(row[ColumnIndex(RenameColumns(t),
                                                                     account_col)])),
                                     "total")))

Aggregates(out) == <<out.status, out.kpis, out.summary, out.trial_balance>>

\* C6 as stated: the aggregates of a table are those of the same table with
\* its "total" rows removed
C6_TotalRowsExcluded ==
    \A i \in Analyses :
        calls[i].out.status = "ok" =>
            Aggregates(calls[i].out) =
                Aggregates(analyze_gl(WithoutTotalRows(calls[i].df),
                                      calls[i].user_mapping, calls[i].sel))

\* The two ledger lines of the end-to-end scenario
ScenarioTable ==
    Table(<<"account", "debit", "credit">>,
          << <<StrCell("Sales Revenue"), IntCell(0), IntCell(1000)>>,
             <<StrCell("Office Rent Expense"), IntCell(500), IntCell(0)>> >>)

\* C7, as amended: on the scenario's two rows analyze_gl yields
\* revenue = -1000, opex = 500, cogs = 0, gross_profit = -1000, ebitda = -1500
C7_ScenarioKpis ==
    \A i \in Analyses :
        calls[i].df = ScenarioTable =>
            /\ calls[i].out.status = "ok"
            /\ calls[i].out.kpis["Revenue"] = -1000
            /\ calls[i].out.kpis["OPEX"] = 500
            /\ calls[i].out.kpis["COGS"] = 0
            /\ calls[i].out.kpis["Gross Profit"] = -1000
            /\ calls[i].out.kpis["EBITDA"] = -1500

\* C7 witness: the scenario's table was analysed with debit, credit and
\* account resolved
C7_Witness ==
    \E i \in Analyses :
        /\ calls[i].df = ScenarioTable
        /\ calls[i].out.status = "ok"
        /\ calls[i].out.col_mapping["debit_gbp"] = "debit"
        /\ calls[i].out.col_mapping["credit_gbp"] = "credit"

\* C7 as stated: revenue = 1000, opex = -500, gross_profit = 1000, ebitda = 1500
C7_ScenarioKpisAsStated ==
    \A i \in Analyses :
        (calls[i].df = ScenarioTable /\ calls[i].out.status = "ok") =>
            /\ calls[i].out.kpis["Revenue"] = 1000
            /\ calls[i].out.kpis["OPEX"] = -500
            /\ calls[i].out.kpis["COGS"] = 0
            /\ calls[i].out.kpis["Gross Profit"] = 1000
            /\ calls[i].out.kpis["EBITDA"] = 1500

\* Two tables with the same column names and, cell by cell, the same values
\* (an int and the float of the same number are the same value)
SameCell(x, y) ==
    IF x.kind \in {"int", "float"} /\ y.kind \in {"int", "float"}
    THEN x.num = y.num
    ELSE x = y

SameTable(a, b) ==
    /\ a.columns = b.columns
    /\ Len(a.data) = Len(b.data)
    /\ \A r \in DOMAIN a.data : \A i \in DOMAIN a.columns :
           SameCell(a.data[r][i], b.data[r][i])

\* C8 as stated: after a call returns, normally or not, the caller's table has
\* the columns and the cell values it had before the call
C8_CallerTableUntouched ==
    \A i \in DOMAIN calls : SameTable(calls[i].out.df, calls[i].df)

\* C9: two successive calls of analyze_gl on the same table object and mapping
\* object, the select boxes answering alike, end the same way with the same
\* KPI mapping and the same category summary
C9_SecondCallAgrees ==
    \A i \in Analyses :
        (i + 1 \in Analyses /\ calls[i + 1].sel = calls[i].sel) =>
            /\ calls[i + 1].out.status = calls[i].out.status
            /\ calls[i + 1].out.kpis = calls[i].out.kpis
            /\ calls[i + 1].out.summary = calls[i].out.summary

\* C9 witness: a second call on a table the first call has changed, with
\* KPIs that are not zero
C9_Witness ==
    \E i \in Analyses :
        /\ i + 1 \in Analyses
        /\ calls[i + 1].sel = calls[i].sel
        /\ calls[i].out.status = "ok"
        /\ calls[i + 1].df # calls[i].df
        /\ calls[i].out.kpis["Revenue"] # 0
        /\ calls[i].out.kpis["OPEX"] # 0

-----------------------------------------------------------------------------
(* Properties of the header detection, checked under SpecHeader *)

\* The keywords that are cells of the row (lowercased, stripped)
KeywordCells(row) ==
    {k \in DOMAIN header_keywords :
        \E j \in DOMAIN row :
            ~IsNa(row[j]) /\ Strip(Lower(CellToStr(row[j]))) = header_keywords[k]}

\* A header row: at least 3 recognizable keywords among its cells
IsHeaderRow(row) == Cardinality(KeywordCells(row)) >= 3

\* The keywords that occur somewhere in the row's text
KeywordsInText(row) ==
    LET text == JoinRow(row)
    IN  {k \in DOMAIN header_keywords : Contains(text, header_keywords[k])}

-----------------------------------------------------------------------------
(* Properties of the classifier, checked under SpecClassifier *)

\* C10: classify_account returns Revenue, OPEX, Other Expense or Unclassified,
\* never COGS or Other Income
C10_NeverCogsNorOtherIncome ==
    pc = "returned" =>
        account_category \in {"Revenue", "OPEX", "Other Expense", "Unclassified"}

\* C10 witness: a text that holds an Other Income keyword, spaces included,
\* was classified
C10_Witness ==
    /\ pc = "returned"
    /\ account_name.kind = "str"
    /\ Contains(Lower(account_name.str), "interest income")
    /\ account_category = "Unclassified"

=============================================================================
